---- MODULE Spec2Model ----
(***************************************************************************)
(* CCLib host driver (Python/cclib/ccdebugger.py): the serial transport    *)
(* and command layer of class CCDebugger against a CCLib_proxy device      *)
(* (SpecWire), and the DMA-driven flash programmer writeCODE against the   *)
(* CC2540 target (SpecFlash).                                              *)
(***************************************************************************)
EXTENDS Integers, Sequences, FiniteSets, TLC

\* ------------------------------------------------------------------------
\* Protocol constants (ccdebugger.py:30-47)
\* ------------------------------------------------------------------------
CMD_ENTER == 1
CMD_EXIT == 2
CMD_CHIP_ID == 3
CMD_STATUS == 4
CMD_PC == 5
CMD_STEP == 6
CMD_EXEC_1 == 7
CMD_EXEC_2 == 8
CMD_EXEC_3 == 9
CMD_BRUSTWR == 10
CMD_RD_CFG == 11
CMD_WR_CFG == 12
CMD_PING == 240
ANS_OK == 1
ANS_ERROR == 2

\* brustWrite's local limit on the payload length (ccdebugger.py:243)
MaxBurstLen == 2048

\* ------------------------------------------------------------------------
\* Bounds of the model
\* ------------------------------------------------------------------------
\* longest small payload handed to brustWrite / writeCODE (besides the
\* boundary lengths 2048 and 2049)
MaxLen == 3
\* number of public operations invoked on one session after it is opened
MaxOps == 2

\* ------------------------------------------------------------------------
\* Python integer operators used by the driver (unbounded non-negative ints)
\* ------------------------------------------------------------------------
RECURSIVE BitAnd(_, _)
BitAnd(a, b) ==
    IF a = 0 \/ b = 0 THEN 0
    ELSE (a % 2) * (b % 2) + 2 * BitAnd(a \div 2, b \div 2)

BitOr(a, b) == a + b - BitAnd(a, b)

Shl(a, n) == a * (2 ^ n)

Shr(a, n) == a \div (2 ^ n)

\* a & ~flag for non-negative a
BitClear(a, flag) == a - BitAnd(a, flag)

Min(a, b) == IF a < b THEN a ELSE b

\* data[lo:hi] of Python (0-based, hi exclusive, clipped to the list)
Slice(s, lo, hi) ==
    LET h == Min(hi, Len(s))
    IN  IF lo >= h THEN << >> ELSE SubSeq(s, lo + 1, h)

\* a payload of n bytes, byte i (0-based) being (seed + i) mod 256
MkData(n, seed) == [i \in 1..n |-> (seed + i - 1) % 256]

\* ------------------------------------------------------------------------
\* State
\* ------------------------------------------------------------------------
VARIABLES
    \* --- transport and session (class CCDebugger) ---
    port,         \* self.ser: "unopened", "open" or "closed"
    sess,         \* the CCDebugger object: "new", "init" (in __init__), "ready", "failed"
    chipID,       \* self.chipID
    chipInfo,     \* self.chipInfo
    debugConfig,  \* self.debugConfig
    debugStatus,  \* self.debugStatus
    op,           \* the public operation in progress and its arguments
    stage,        \* which command of the operation is in progress (1-based)
    pc,           \* position inside the command exchange
    ans,          \* readXDATA's list of bytes read so far
    got,          \* bytes read with ser.read() after the ack of the current command
                  \* (for brustWrite: after its second ack)
    result,       \* how the last operation ended: return value or exception
    tx,           \* bytes written to the serial port by the current command
    rx,           \* bytes the proxy has sent that the host has not read yet
    pwait,        \* the proxy: "idle", "frame" (frame received), "burst" (waiting
                  \* for a burst payload), "burstdata" (payload received)
    nops,         \* number of public operations invoked so far
    sentOp,       \* number of bytes the current operation has written to the port
    readOp,       \* number of bytes the current operation has read since its last write
    st0,          \* self.debugStatus when the current operation was invoked
    pingOk,       \* __init__: what self.ping() returned
    ack,          \* the byte the current command read as its ack (None: none read)
    \* --- the CC2540 target and a writeCODE call ---
    chip,         \* the target: DPTR, accumulator, XDATA and SFR contents
    chipPre,      \* the target when the current operation was invoked (a writeXDATA
                  \* that follows a readXDATA keeps the read's)
    wc,           \* the arguments of the writeCODE call
    iOfs,         \* writeCODE: iOfs
    iLen,         \* writeCODE: iLen
    wpc,          \* writeCODE: the statement to execute next
    log,          \* what writeCODE has done for the current chunk, in order
    bursts,       \* the brustWrite calls of writeCODE so far, in order
    wres          \* how writeCODE ended

wireVars == << port, sess, chipID, chipInfo, debugConfig, debugStatus, op, stage,
               pc, ans, got, result, tx, rx, pwait, nops, sentOp, readOp, st0, pingOk, ack >>

\* the session fields and port that writeCODE does not touch
wireVarsButStatus == << port, sess, chipID, chipInfo, debugConfig, op, stage,
                        pc, ans, got, result, tx, rx, pwait, nops, sentOp, readOp, st0,
                        pingOk, ack >>

flashVars == << chip, chipPre, wc, iOfs, iLen, wpc, log, bursts, wres >>

vars == << wireVars, flashVars >>

\* ------------------------------------------------------------------------
\* Values the proxy may answer with (bounded choices of the environment)
\* ------------------------------------------------------------------------
ChipIdHi == {141, 127}          \* 0x8D, 0x7F
ChipIdLo == {0, 65}             \* 0x00, 0x41
PcBytes == {18}
ExecBytes == {90}
ConfigBytes == {4}
StatusBytes == {34, 178}        \* 0x22, 0xB2
ErrCodes == {5}
JunkAcks == {0}
\* what may follow a byte that is no ack: nothing, or one more byte
JunkTails == { << >> } \cup { << b >> : b \in ErrCodes }

\* Python's None for an omitted argument of instr
None == -1

\* ------------------------------------------------------------------------
\* Operations and their command frames
\* ------------------------------------------------------------------------
MkOp(name, c1, c2, c3, data) ==
    [name |-> name, c1 |-> c1, c2 |-> c2, c3 |-> c3, data |-> data]

InitOp == MkOp("init", 0, 0, 0, << >>)

NoOp == MkOp("none", 0, 0, 0, << >>)

BurstLens == (0..MaxLen) \cup {MaxBurstLen, MaxBurstLen + 1}

PublicOps ==
    { MkOp(n, 0, 0, 0, << >>) :
        n \in {"ping", "enter", "exit", "readConfig", "step", "getChipID", "getPC"} }
    \cup { MkOp("writeConfig", 0, 0, 0, << >>) }
    \cup { MkOp("instr", 224, None, None, << >>),      \* MOVX A,@DPTR
           MkOp("instr", 229, 199, None, << >>),       \* MOV A,direct
           MkOp("instr", 117, 199, 1, << >>) }         \* MOV direct,#data
    \cup { MkOp("instri", 144, 25206, 0, << >>) }      \* MOV DPTR,#0x6276
    \cup { MkOp("brustWrite", 0, 0, 0, MkData(n, 160)) : n \in BurstLens }

\* the (cmd, c1, c2, c3) that instr passes to sendFrame
InstrFrame(c1, c2, c3) ==
    IF c2 = None THEN << CMD_EXEC_1, c1, 0, 0 >>
    ELSE IF c3 = None THEN << CMD_EXEC_2, c1, c2, 0 >>
    ELSE << CMD_EXEC_3, c1, c2, c3 >>

\* the (cmd, c1, c2, c3) that instri passes to sendFrame
InstriFrame(c1, i1) ==
    << CMD_EXEC_3, c1, BitAnd(Shr(i1, 8), 255), BitAnd(i1, 255) >>

\* variant of BrustFrame: the high length byte masked with 0x07 instead of 0xFF
BrustFrame_NarrowHigh(data) ==
    LET length == Len(data)
        cHigh == BitAnd(Shr(length, 8), 7)
        cLow == BitAnd(length, 255)
    IN  << CMD_BRUSTWR, cHigh, cLow, 0 >>

\* the (cmd, c1, c2, c3) that brustWrite passes to sendFrame
BrustFrame(data) ==
    LET length == Len(data)
        cHigh == BitAnd(Shr(length, 8), 255)
        cLow == BitAnd(length, 255)
    IN  << CMD_BRUSTWR, cHigh, cLow, 0 >>

\* variant of BrustTooLarge: the comparison written >= instead of >
BrustTooLarge_OffByOne(data) == Len(data) >= MaxBurstLen

\* brustWrite's "Validate length": TRUE when the call is refused locally
BrustTooLarge(data) == Len(data) > MaxBurstLen

\* the command sequence of __init__: ping, getChipID, getChipInfo (readXDATA
\* of 2 bytes at 0x6276), readConfig
InitFrames ==
    << << CMD_PING, 0, 0, 0 >>,
       << CMD_CHIP_ID, 0, 0, 0 >>,
       InstriFrame(144, 25206),
       InstrFrame(224, None, None),
       InstrFrame(163, None, None),
       InstrFrame(224, None, None),
       InstrFrame(163, None, None),
       << CMD_RD_CFG, 0, 0, 0 >> >>

\* the frame the operation o sends as its command number k
FrameOf(o, k) ==
    CASE o.name = "init" -> InitFrames[k]
      [] o.name = "ping" -> << CMD_PING, 0, 0, 0 >>
      [] o.name = "enter" -> << CMD_ENTER, 0, 0, 0 >>
      [] o.name = "exit" -> << CMD_EXIT, 0, 0, 0 >>
      [] o.name = "readConfig" -> << CMD_RD_CFG, 0, 0, 0 >>
      [] o.name = "writeConfig" -> << CMD_WR_CFG, o.c1, 0, 0 >>
      [] o.name = "step" -> << CMD_STEP, 0, 0, 0 >>
      [] o.name = "getChipID" -> << CMD_CHIP_ID, 0, 0, 0 >>
      [] o.name = "getPC" -> << CMD_PC, 0, 0, 0 >>
      [] o.name = "instr" -> InstrFrame(o.c1, o.c2, o.c3)
      [] o.name = "instri" -> InstriFrame(o.c1, o.c2)
      [] o.name = "brustWrite" -> BrustFrame(o.data)

\* the number of ser.read() calls the host makes after the ack of a command
HostReads(o, k) ==
    CASE o.name = "init" ->
            IF k = 1 THEN 0 ELSE IF k = 2 THEN 2 ELSE 1
      [] o.name \in {"ping", "enter", "exit", "brustWrite"} -> 0
      [] o.name \in {"readConfig", "writeConfig", "step", "instr", "instri"} -> 1
      [] o.name \in {"getChipID", "getPC"} -> 2

\* the payload the proxy sends after ANS_OK, by command (wire protocol table)
ProxyPayloads(cmd) ==
    CASE cmd \in {CMD_ENTER, CMD_EXIT, CMD_PING, CMD_BRUSTWR} -> { << >> }
      [] cmd = CMD_CHIP_ID -> { << h, l >> : h \in ChipIdHi, l \in ChipIdLo }
      [] cmd = CMD_PC -> { << h, l >> : h \in PcBytes, l \in PcBytes }
      [] cmd \in {CMD_STATUS, CMD_STEP, CMD_WR_CFG} -> { << b >> : b \in StatusBytes }
      [] cmd \in {CMD_EXEC_1, CMD_EXEC_2, CMD_EXEC_3} -> { << b >> : b \in ExecBytes }
      [] cmd = CMD_RD_CFG -> { << b >> : b \in ConfigBytes }

\* getChipInfo's decoding of the two chip info registers
ChipInfoOf(regs) ==
    [ flash |-> 2 ^ (4 + Shr(BitAnd(regs[1], 112), 4)),
      usb |-> BitAnd(regs[1], 8) # 0,
      sram |-> BitAnd(regs[2], 7) + 1 ]

NoChipInfo == [flash |-> 0, usb |-> FALSE, sram |-> 0]

\* results of an operation
NoResult == [kind |-> "none", val |-> 0]

Returned(v) == [kind |-> "value", val |-> v]

RetTrue == [kind |-> "True", val |-> 1]

RetFalse == [kind |-> "False", val |-> 0]

Raised(kind, v) == [kind |-> kind, val |-> v]

IsException(r) == r.kind \in {"IOError", "TypeError"}


\* ------------------------------------------------------------------------
\* The CC2540 target as the driver addresses it
\* ------------------------------------------------------------------------
\* XDATA cells the model keeps: the DMA descriptors at 0x1000..0x100F, the
\* flash controller and chip info registers at 0x6270..0x6277, and the serial
\* number at 0x780E..0x7813; other cells read 0 and ignore writes
XAddrs == (4096..4111) \cup (25200..25207) \cup (30734..30739)

\* SFRs the driver uses: FMAP, MEMCTR, DMAIRQ, DMA1CFGL/H, DMA0CFGL/H, DMAARM
SfrAddrs == {159, 199} \cup (209..214)

Chip0 ==
    [ dptr |-> 0, a |-> 0, xdata |-> [x \in XAddrs |-> 0], sfr |-> [r \in SfrAddrs |-> 0] ]

\* the arguments of writeCODE(offset, data, erase, blockSize, flashPageSize)
MkCall(offset, data, erase, blockSize, flashPageSize) ==
    [ offset |-> offset, data |-> data, erase |-> erase, blockSize |-> blockSize,
      flashPageSize |-> flashPageSize ]

NoCall == MkCall(0, << >>, FALSE, 0, 0)

\* no writeCODE call has been made
FlashIdle ==
    /\ chip = Chip0
    /\ chipPre = Chip0
    /\ wc = NoCall
    /\ iOfs = 0
    /\ iLen = 0
    /\ wpc = "idle"
    /\ log = << >>
    /\ bursts = << >>
    /\ wres = NoResult

\* ------------------------------------------------------------------------
\* Transport and command layer: initial state
\* ------------------------------------------------------------------------
InitWire ==
    /\ port = "unopened"
    /\ sess = "new"
    /\ chipID = 0
    /\ chipInfo = NoChipInfo
    /\ debugConfig = 0
    /\ debugStatus = 0
    /\ op = NoOp
    /\ stage = 0
    /\ pc = "idle"
    /\ ans = << >>
    /\ got = << >>
    /\ result = NoResult
    /\ tx = << >>
    /\ rx = << >>
    /\ pwait = "idle"
    /\ nops = 0
    /\ sentOp = 0
    /\ readOp = 0
    /\ st0 = 0
    /\ pingOk = FALSE
    /\ ack = None
    /\ FlashIdle

\* an exception leaves the operation; one raised in __init__ leaves no object
Raise(kind, v) ==
    /\ result' = Raised(kind, v)
    /\ pc' = "idle"
    /\ sess' = IF op.name = "init" THEN "failed" ELSE sess

\* __init__: "Open port" (serial.Serial(port, timeout=1)), then ping is called
OpenPort ==
    /\ sess = "new"
    /\ \/ /\ port' = "open"
          /\ sess' = "init"
          /\ op' = InitOp
          /\ stage' = 1
          /\ pc' = "send"
          /\ result' = NoResult
       \/ /\ port' = port
          /\ sess' = "failed"
          /\ result' = Raised("IOError", 0)
          /\ UNCHANGED << op, stage, pc >>
    /\ UNCHANGED << chipID, chipInfo, debugConfig, debugStatus, ans, got, tx, rx,
                    pwait, nops, sentOp, readOp, st0, pingOk, ack >>
    /\ UNCHANGED flashVars

\* a caller invokes a public operation on the session
Call(o) ==
    /\ sess = "ready"
    /\ pc = "idle"
    /\ nops < MaxOps
    /\ op' = o
    /\ stage' = 1
    /\ pc' = "send"
    /\ result' = NoResult
    /\ nops' = nops + 1
    /\ sentOp' = 0
    /\ readOp' = 0
    /\ st0' = debugStatus
    /\ got' = << >>
    /\ tx' = << >>
    /\ UNCHANGED << port, sess, chipID, chipInfo, debugConfig, debugStatus, ans, rx,
                    pwait, pingOk >>
    /\ ack' = None
    /\ UNCHANGED flashVars

\* brustWrite: "Validate length" refuses the call before anything is sent
BrustReject ==
    /\ pc = "send"
    /\ op.name = "brustWrite"
    /\ BrustTooLarge(op.data)
    /\ result' = RetFalse
    /\ pc' = "idle"
    /\ UNCHANGED << port, sess, chipID, chipInfo, debugConfig, debugStatus, op, stage,
                    ans, got, tx, rx, pwait, nops, sentOp, readOp, st0, pingOk, ack >>
    /\ UNCHANGED flashVars

\* sendFrame: write the 4-byte command frame and flush
SendFrame ==
    /\ pc = "send"
    /\ ~(op.name = "brustWrite" /\ BrustTooLarge(op.data))
    /\ tx' = FrameOf(op, stage)
    /\ sentOp' = sentOp + 4
    /\ readOp' = 0
    /\ got' = << >>
    /\ pwait' = "frame"
    /\ pc' = "ack"
    /\ UNCHANGED << port, sess, chipID, chipInfo, debugConfig, debugStatus, op, stage,
                    ans, result, rx, nops, st0, pingOk >>
    /\ ack' = None
    /\ UNCHANGED flashVars

\* the proxy answers a command frame: ANS_OK and the command's payload,
\* ANS_ERROR and an error code, a byte that is no ack (alone or followed by
\* one more byte), or nothing at all
ProxyRespond ==
    /\ pwait = "frame"
    /\ \/ \E pl \in ProxyPayloads(tx[1]) :
            /\ rx' = rx \o << ANS_OK >> \o pl
            /\ pwait' = IF tx[1] = CMD_BRUSTWR THEN "burst" ELSE "idle"
       \/ \E e \in ErrCodes :
            /\ rx' = rx \o << ANS_ERROR, e >>
            /\ pwait' = "idle"
       \/ \E j \in JunkAcks, t \in JunkTails :
            /\ rx' = rx \o << j >> \o t
            /\ pwait' = "idle"
       \/ /\ rx' = rx
          /\ pwait' = "idle"
    /\ UNCHANGED << port, sess, chipID, chipInfo, debugConfig, debugStatus, op, stage,
                    pc, ans, got, result, tx, nops, sentOp, readOp, st0, pingOk, ack >>
    /\ UNCHANGED flashVars

\* the proxy answers a burst payload: ANS_OK and the debug status, ANS_ERROR
\* and an error code, a byte that is no ack, or nothing at all
ProxyBurstRespond ==
    /\ pwait = "burstdata"
    /\ \/ \E b \in StatusBytes : rx' = rx \o << ANS_OK, b >>
       \/ \E e \in ErrCodes : rx' = rx \o << ANS_ERROR, e >>
       \/ \E j \in JunkAcks, t \in JunkTails : rx' = rx \o << j >> \o t
       \/ rx' = rx
    /\ pwait' = "idle"
    /\ UNCHANGED << port, sess, chipID, chipInfo, debugConfig, debugStatus, op, stage,
                    pc, ans, got, result, tx, nops, sentOp, readOp, st0, pingOk, ack >>
    /\ UNCHANGED flashVars

\* where a command goes once its ack was ANS_OK
AfterAck(o, k) ==
    IF o.name = "brustWrite" THEN "stream"
    ELSE IF HostReads(o, k) = 0 THEN "ret" ELSE "payload"

\* sendFrame: status = ord(self.ser.read()); if status != ANS_OK ...
ReadAck ==
    /\ pc = "ack"
    /\ rx # << >>
    /\ rx' = Tail(rx)
    /\ readOp' = readOp + 1
    /\ pc' = IF Head(rx) # ANS_OK THEN "err" ELSE AfterAck(op, stage)
    /\ UNCHANGED << port, sess, chipID, chipInfo, debugConfig, debugStatus, op, stage,
                    ans, got, result, tx, pwait, nops, sentOp, st0, pingOk >>
    /\ ack' = Head(rx)
    /\ UNCHANGED flashVars

\* variant of ReadErr: the exception is raised without reading the error code
ReadErr_CodeUnread ==
    /\ pc = "err"
    /\ rx # << >>
    /\ Raise("IOError", 0)
    /\ UNCHANGED << port, chipID, chipInfo, debugConfig, debugStatus, op, stage,
                    ans, got, tx, rx, pwait, nops, sentOp, readOp, st0, pingOk, ack >>
    /\ UNCHANGED flashVars

\* sendFrame: status = ord(self.ser.read()); raise IOError(... status)
ReadErr ==
    /\ pc = "err"
    /\ rx # << >>
    /\ rx' = Tail(rx)
    /\ readOp' = readOp + 1
    /\ Raise("IOError", Head(rx))
    /\ UNCHANGED << port, chipID, chipInfo, debugConfig, debugStatus, op, stage,
                    ans, got, tx, pwait, nops, sentOp, st0, pingOk, ack >>
    /\ UNCHANGED flashVars

\* b = ord(self.ser.read()) after sendFrame returned True
ReadPayload ==
    /\ pc = "payload"
    /\ rx # << >>
    /\ rx' = Tail(rx)
    /\ readOp' = readOp + 1
    /\ got' = Append(got, Head(rx))
    /\ pc' = IF Len(got) + 1 >= HostReads(op, stage) THEN "ret" ELSE "payload"
    /\ UNCHANGED << port, sess, chipID, chipInfo, debugConfig, debugStatus, op, stage,
                    ans, result, tx, pwait, nops, sentOp, st0, pingOk, ack >>
    /\ UNCHANGED flashVars

\* a ser.read() that times out returns '' and ord('') raises TypeError
ReadTimeout ==
    /\ pc \in {"ack", "err", "payload", "ack2", "err2", "status2"}
    /\ rx = << >>
    /\ pwait = "idle"
    /\ Raise("TypeError", 0)
    /\ UNCHANGED << port, chipID, chipInfo, debugConfig, debugStatus, op, stage,
                    ans, got, tx, rx, pwait, nops, sentOp, readOp, st0, pingOk, ack >>
    /\ UNCHANGED flashVars


\* (b1 << 8) | b2 of getChipID and getPC
Word16(b1, b2) == BitOr(Shl(b1, 8), b2)

\* variant of ValidChip: the mask written 0x0d00 instead of 0xff00
ValidChip_WrongMask(id) == BitAnd(id, 3328) = BitAnd(36096, 3328)

\* __init__: "Validate chip"
ValidChip(id) == BitAnd(id, 65280) = 36096      \* (id & 0xff00) == 0x8d00

\* __init__: a command of the constructor has returned; go on with the next
\* statement (ping, getChipID, getChipInfo's readXDATA, readConfig, validation)
InitReturn ==
    /\ pc = "ret"
    /\ op.name = "init"
    /\ \/ /\ stage = 1
          /\ pingOk' = TRUE
          /\ stage' = stage + 1
          /\ pc' = "send"
          /\ UNCHANGED << sess, chipID, chipInfo, debugConfig, debugStatus, ans, result >>
       \/ /\ stage \in {3, 5}
          /\ stage' = stage + 1
          /\ pc' = "send"
          /\ UNCHANGED << sess, chipID, chipInfo, debugConfig, debugStatus, ans, result,
                          pingOk >>
       \/ /\ stage = 2
          /\ chipID' = Word16(got[1], got[2])
          /\ ans' = << >>
          /\ stage' = stage + 1
          /\ pc' = "send"
          /\ UNCHANGED << sess, chipInfo, debugConfig, debugStatus, result, pingOk >>
       \/ /\ stage \in {4, 6}
          /\ ans' = Append(ans, got[1])
          /\ stage' = stage + 1
          /\ pc' = "send"
          /\ UNCHANGED << sess, chipID, chipInfo, debugConfig, debugStatus, result, pingOk >>
       \/ /\ stage = 7
          /\ chipInfo' = ChipInfoOf(ans)
          /\ stage' = stage + 1
          /\ pc' = "send"
          /\ UNCHANGED << sess, chipID, debugConfig, debugStatus, ans, result, pingOk >>
       \/ /\ stage = 8
          /\ debugConfig' = got[1]
          /\ debugStatus' = 0
          /\ stage' = stage
          /\ pc' = "idle"
          /\ IF ValidChip(chipID)
             THEN sess' = "ready" /\ result' = RetTrue
             ELSE sess' = "failed" /\ result' = Raised("IOError", chipID)
          /\ UNCHANGED << chipID, chipInfo, ans, pingOk >>
    /\ UNCHANGED << port, op, got, tx, rx, pwait, nops, sentOp, readOp, st0, ack >>
    /\ UNCHANGED flashVars

\* ping, enter, exit: return self.sendFrame(...)
SimpleReturn ==
    /\ pc = "ret"
    /\ op.name \in {"ping", "enter", "exit"}
    /\ result' = RetTrue
    /\ pc' = "idle"
    /\ UNCHANGED << port, sess, chipID, chipInfo, debugConfig, debugStatus, op, stage,
                    ans, got, tx, rx, pwait, nops, sentOp, readOp, st0, pingOk, ack >>
    /\ UNCHANGED flashVars

\* readConfig, step, instr, instri: return b1; getChipID, getPC: return (b1 << 8) | b2
ValueReturn ==
    /\ pc = "ret"
    /\ op.name \in {"readConfig", "step", "instr", "instri", "getChipID", "getPC"}
    /\ result' = IF op.name \in {"getChipID", "getPC"}
                 THEN Returned(Word16(got[1], got[2]))
                 ELSE Returned(got[1])
    /\ pc' = "idle"
    /\ UNCHANGED << port, sess, chipID, chipInfo, debugConfig, debugStatus, op, stage,
                    ans, got, tx, rx, pwait, nops, sentOp, readOp, st0, pingOk, ack >>
    /\ UNCHANGED flashVars

\* writeConfig: self.debugConfig = config; self.debugStatus = b1; return b1
WriteConfigReturn ==
    /\ pc = "ret"
    /\ op.name = "writeConfig"
    /\ debugConfig' = op.c1
    /\ debugStatus' = got[1]
    /\ result' = Returned(got[1])
    /\ pc' = "idle"
    /\ UNCHANGED << port, sess, chipID, chipInfo, op, stage,
                    ans, got, tx, rx, pwait, nops, sentOp, readOp, st0, pingOk, ack >>
    /\ UNCHANGED flashVars

\* the bytes brustWrite streams: chr(b & 0xFF) for b in data
BrustPayload(data) == [i \in 1..Len(data) |-> BitAnd(data[i], 255)]

\* brustWrite: "Start sending data", then flush
BrustStream ==
    /\ pc = "stream"
    /\ tx' = tx \o BrustPayload(op.data)
    /\ sentOp' = sentOp + Len(BrustPayload(op.data))
    /\ readOp' = 0
    /\ pwait' = IF pwait = "burst" THEN "burstdata" ELSE pwait
    /\ pc' = "ack2"
    /\ UNCHANGED << port, sess, chipID, chipInfo, debugConfig, debugStatus, op, stage,
                    ans, got, result, rx, nops, st0, pingOk, ack >>
    /\ UNCHANGED flashVars

\* brustWrite: "Handle response": status = ord(self.ser.read())
BrustReadAck ==
    /\ pc = "ack2"
    /\ rx # << >>
    /\ rx' = Tail(rx)
    /\ readOp' = readOp + 1
    /\ pc' = IF Head(rx) # ANS_OK THEN "err2" ELSE "status2"
    /\ UNCHANGED << port, sess, chipID, chipInfo, debugConfig, debugStatus, op, stage,
                    ans, got, result, tx, pwait, nops, sentOp, st0, pingOk >>
    /\ ack' = Head(rx)
    /\ UNCHANGED flashVars

\* brustWrite: status = ord(self.ser.read()); raise IOError(... status)
BrustReadErr ==
    /\ pc = "err2"
    /\ rx # << >>
    /\ rx' = Tail(rx)
    /\ readOp' = readOp + 1
    /\ Raise("IOError", Head(rx))
    /\ UNCHANGED << port, chipID, chipInfo, debugConfig, debugStatus, op, stage,
                    ans, got, tx, pwait, nops, sentOp, st0, pingOk, ack >>
    /\ UNCHANGED flashVars

\* brustWrite: self.debugStatus = ord(self.ser.read()); return True
BrustReadStatus ==
    /\ pc = "status2"
    /\ rx # << >>
    /\ rx' = Tail(rx)
    /\ readOp' = readOp + 1
    /\ debugStatus' = Head(rx)
    /\ got' = Append(got, Head(rx))
    /\ result' = RetTrue
    /\ pc' = "idle"
    /\ UNCHANGED << port, sess, chipID, chipInfo, debugConfig, op, stage,
                    ans, tx, pwait, nops, sentOp, st0, pingOk, ack >>
    /\ UNCHANGED flashVars

NextWire ==
    \/ OpenPort
    \/ \E o \in PublicOps : Call(o)
    \/ BrustReject
    \/ SendFrame
    \/ ProxyRespond
    \/ ProxyBurstRespond
    \/ ReadAck
    \/ ReadErr
    \/ ReadPayload
    \/ ReadTimeout
    \/ InitReturn
    \/ SimpleReturn
    \/ ValueReturn
    \/ WriteConfigReturn
    \/ BrustStream
    \/ BrustReadAck
    \/ BrustReadErr
    \/ BrustReadStatus

SpecWire == InitWire /\ [][NextWire]_vars


\* ========================================================================
\* Target-CPU abstraction: what the debug instructions do to the target
\* ========================================================================
XRead(c, addr) == IF addr \in XAddrs THEN c.xdata[addr] ELSE 0

XWrite(c, addr, v) == IF addr \in XAddrs THEN [c EXCEPT !.xdata[addr] = v] ELSE c

SfrRead(c, reg) == IF reg \in SfrAddrs THEN c.sfr[reg] ELSE 0

SfrWrite(c, reg, v) == IF reg \in SfrAddrs THEN [c EXCEPT !.sfr[reg] = v] ELSE c

\* the target executes the instruction carried by an EXEC_n frame; the
\* command returns the accumulator (field a)
TargetStep(c, f) ==
    LET opc == f[2]
    IN  CASE opc = 144 -> [c EXCEPT !.dptr = f[3] * 256 + f[4]]     \* MOV DPTR,#data16
          [] opc = 224 -> [c EXCEPT !.a = XRead(c, c.dptr)]         \* MOVX A,@DPTR
          [] opc = 116 -> [c EXCEPT !.a = f[3]]                     \* MOV A,#data
          [] opc = 240 -> XWrite(c, c.dptr, c.a)                    \* MOVX @DPTR,A
          [] opc = 163 -> [c EXCEPT !.dptr = (c.dptr + 1) % 65536]  \* INC DPTR
          [] opc = 229 -> [c EXCEPT !.a = SfrRead(c, f[3])]         \* MOV A,direct
          [] opc = 117 -> SfrWrite(c, f[3], f[4])                   \* MOV direct,#data
          [] OTHER -> c

\* TargetStep with the target state evaluated once
TargetExec(c, f) == CHOOSE r \in { TargetStep(v, f) : v \in {c} } : TRUE

\* instr(c1, c2, c3) and instri(c1, i1) on a proxy that acknowledges
Instr(c, c1, c2, c3) == TargetExec(c, InstrFrame(c1, c2, c3))

Instri(c, c1, i1) == TargetExec(c, InstriFrame(c1, i1))

RECURSIVE ReadLoop(_, _, _)
ReadLoop(c, n, acc) ==
    IF n = 0 THEN [chip |-> c, ans |-> acc]
    ELSE CHOOSE r \in { ReadLoop(Instr(c1, 163, None, None), n - 1, Append(acc, c1.a)) :
                          c1 \in { Instr(c, 224, None, None) } } : TRUE

\* readXDATA(offset, size): the target afterwards and the list returned
ReadXDATA(c, offset, size) == ReadLoop(Instri(c, 144, offset), size, << >>)

RECURSIVE WriteLoop(_, _)
WriteLoop(c, bytes) ==
    IF bytes = << >> THEN c
    ELSE LET c1 == Instr(c, 116, Head(bytes), None)
             c2 == Instr(c1, 240, None, None)
             c3 == Instr(c2, 163, None, None)
         IN  WriteLoop(c3, Tail(bytes))

\* variant of WriteXDATA: DPTR set one byte too far
WriteXDATA_OffByOne(c, offset, bytes) == WriteLoop(Instri(c, 144, offset + 1), bytes)

\* writeXDATA(offset, bytes): the target afterwards
WriteXDATA(c, offset, bytes) == WriteLoop(Instri(c, 144, offset), bytes)

\* getRegister(reg): the target afterwards; the value returned is its field a
GetRegister(c, reg) == Instr(c, 229, reg, None)

\* setRegister(reg, v)
SetRegister(c, reg, v) == Instr(c, 117, reg, v)

\* ------------------------------------------------------------------------
\* DMA functions
\* ------------------------------------------------------------------------
\* the arguments of configDMAChannel; writeCODE leaves vlen, word,
\* transferMode, m8 and memBase at their defaults
DmaArgs(srcAddr, dstAddr, trigger, tlen, srcInc, dstInc, priority, interrupt) ==
    [ srcAddr |-> srcAddr, dstAddr |-> dstAddr, trigger |-> trigger, vlen |-> 0,
      tlen |-> tlen, word |-> FALSE, transferMode |-> 0, srcInc |-> srcInc,
      dstInc |-> dstInc, interrupt |-> interrupt, m8 |-> TRUE, priority |-> priority,
      memBase |-> 4096 ]

\* variant of DmaConfig: the M8 bit not inverted
DmaConfig_M8Plain(d) ==
    LET nword == IF d.word THEN 1 ELSE 0
        nirq == IF d.interrupt THEN 1 ELSE 0
        nm8 == IF d.m8 THEN 1 ELSE 0
    IN  << BitAnd(Shr(d.srcAddr, 8), 255),
           BitAnd(d.srcAddr, 255),
           BitAnd(Shr(d.dstAddr, 8), 255),
           BitAnd(d.dstAddr, 255),
           BitOr(Shl(BitAnd(d.vlen, 7), 5), BitAnd(Shr(d.tlen, 8), 31)),
           BitAnd(d.tlen, 255),
           BitOr(BitOr(Shl(nword, 7), Shl(d.transferMode, 5)), BitAnd(d.trigger, 31)),
           BitOr(BitOr(BitOr(BitOr(Shl(BitAnd(d.srcInc, 3), 6), Shl(BitAnd(d.dstInc, 3), 4)),
                             Shl(nirq, 3)), Shl(nm8, 2)), BitAnd(d.priority, 3)) >>

\* configDMAChannel: "Prepare DMA configuration bytes"
DmaConfig(d) ==
    LET nword == IF d.word THEN 1 ELSE 0
        nirq == IF d.interrupt THEN 1 ELSE 0
        nm8 == IF d.m8 THEN 0 ELSE 1
    IN  << BitAnd(Shr(d.srcAddr, 8), 255),
           BitAnd(d.srcAddr, 255),
           BitAnd(Shr(d.dstAddr, 8), 255),
           BitAnd(d.dstAddr, 255),
           BitOr(Shl(BitAnd(d.vlen, 7), 5), BitAnd(Shr(d.tlen, 8), 31)),
           BitAnd(d.tlen, 255),
           BitOr(BitOr(Shl(nword, 7), Shl(d.transferMode, 5)), BitAnd(d.trigger, 31)),
           BitOr(BitOr(BitOr(BitOr(Shl(BitAnd(d.srcInc, 3), 6), Shl(BitAnd(d.dstInc, 3), 4)),
                             Shl(nirq, 3)), Shl(nm8, 2)), BitAnd(d.priority, 3)) >>

\* configDMAChannel(index, ...): the descriptor is written to memBase + index*8
\* and the channel's configuration registers are pointed at it
ConfigDMAChannel(c, index, d) ==
    LET memAddr == d.memBase + index * 8
        c1 == WriteXDATA(c, memAddr, DmaConfig(d))
        memAddr1 == d.memBase + 8
    IN  IF index = 0
        THEN Instr(Instr(c1, 117, 212, BitAnd(memAddr, 255)),
                   117, 213, BitAnd(Shr(memAddr, 8), 255))
        ELSE Instr(Instr(c1, 117, 210, BitAnd(memAddr1, 255)),
                   117, 211, BitAnd(Shr(memAddr1, 8), 255))

\* armDMAChannel(index)
ArmDMAChannel(c, index) ==
    LET c1 == GetRegister(c, 214)
    IN  SetRegister(c1, 214, BitOr(c1.a, 2 ^ index))

\* isDMAIRQ(index): the value returned, and the target afterwards
IsDMAIRQ(c, index) == BitAnd(GetRegister(c, 209).a, 2 ^ index) # 0

IsDMAIRQChip(c) == GetRegister(c, 209)

\* clearDMAIRQ(index)
ClearDMAIRQ(c, index) ==
    LET c1 == GetRegister(c, 209)
    IN  SetRegister(c1, 209, BitClear(c1.a, 2 ^ index))

\* ------------------------------------------------------------------------
\* Flash functions
\* ------------------------------------------------------------------------
\* isFlashBusy(): the value returned, and the target afterwards
IsFlashBusy(c) == BitAnd(ReadXDATA(c, 25200, 1).ans[1], 128) # 0

IsFlashBusyChip(c) == ReadXDATA(c, 25200, 1).chip

\* setFlashWrite()
SetFlashWrite(c) ==
    LET r == ReadXDATA(c, 25200, 1)
    IN  WriteXDATA(r.chip, 25200, << BitOr(r.ans[1], 2) >>)

\* setFlashErase()
SetFlashErase(c) ==
    LET r == ReadXDATA(c, 25200, 1)
    IN  WriteXDATA(r.chip, 25200, << BitOr(r.ans[1], 1) >>)

\* writeCODE: "Calculate FLASH address High/Low bytes": [cLow, cHigh]
FlashAddrBytes(offset, ofs, flashPageSize) ==
    LET fAddr == offset + ofs
        fPage == fAddr \div flashPageSize
        fOffset == fAddr % flashPageSize
        cHigh == BitOr(Shl(fPage, 1), BitAnd(Shl(fOffset, 8), 1))
        cLow == BitAnd(fOffset, 255)
    IN  << cLow, cHigh >>

\* the descriptors writeCODE programs for a transfer of tlen bytes
Dma0Args(tlen) == DmaArgs(25184, 0, 31, tlen, 0, 1, 1, FALSE)

Dma1Args(tlen) == DmaArgs(0, 25203, 18, tlen, 1, 0, 2, TRUE)


\* ------------------------------------------------------------------------
\* The target's hardware, as far as writeCODE observes it
\* ------------------------------------------------------------------------
\* LEN field of the DMA descriptor stored at addr
DescLen(c, addr) == BitAnd(XRead(c, addr + 4), 31) * 256 + XRead(c, addr + 5)

\* the flash controller takes up an erase: BUSY is set in FCTL
FlashEraseStart(c) == XWrite(c, 25200, BitOr(XRead(c, 25200), 128))

\* DMA channel 0, triggered by the burst: once the proxy has pushed as many
\* bytes through DBGDATA as the descriptor's LEN, the transfer is complete,
\* the channel disarms and its DMAIRQ bit is raised
Dma0Transfer(c, payload) ==
    LET desc == SfrRead(c, 213) * 256 + SfrRead(c, 212)
    IN  IF BitAnd(SfrRead(c, 214), 1) # 0 /\ Len(payload) >= DescLen(c, desc)
        THEN SfrWrite(SfrWrite(c, 214, BitClear(SfrRead(c, 214), 1)),
                      209, BitOr(SfrRead(c, 209), 1))
        ELSE c

\* ------------------------------------------------------------------------
\* writeCODE
\* ------------------------------------------------------------------------
Offsets == {0, 256, 4096, 6143}       \* 0x0000, 0x0100, 0x1000, 0x17FF

\* largest blockSize of the small calls
MaxBlock == 2

DefaultPageSize == 2048

SmallCalls ==
    { MkCall(o, MkData(n, 160), e, b, DefaultPageSize) :
        o \in Offsets, n \in 0..MaxLen, e \in BOOLEAN, b \in 1..MaxBlock }

\* one byte more than a burst can carry: in two chunks of the default
\* blockSize, and in one chunk of a larger blockSize
BigCalls ==
    { MkCall(0, MkData(MaxBurstLen + 1, 160), FALSE, b, DefaultPageSize) :
        b \in {MaxBurstLen, 2 * MaxBurstLen} }

WriteCodeCalls == SmallCalls \cup BigCalls

RetNone == [kind |-> "None", val |-> 0]

\* a session as __init__ leaves it
ReadySession ==
    /\ port = "open"
    /\ sess = "ready"
    /\ chipID = 36161
    /\ chipInfo = ChipInfoOf(<< 90, 90 >>)
    /\ debugConfig = 4
    /\ debugStatus = 0
    /\ op = InitOp
    /\ stage = 8
    /\ pc = "idle"
    /\ ans = << 90, 90 >>
    /\ got = << 4 >>
    /\ result = RetTrue
    /\ tx = << CMD_RD_CFG, 0, 0, 0 >>
    /\ rx = << >>
    /\ pwait = "idle"
    /\ nops = 0
    /\ sentOp = 32
    /\ readOp = 2
    /\ st0 = 0
    /\ pingOk = TRUE
    /\ ack = None

\* a session as __init__ leaves it, and an untouched target
InitFlash == ReadySession /\ FlashIdle

\* a caller invokes writeCODE(offset, data, erase, blockSize, flashPageSize)
WriteCodeCall(cl) ==
    /\ sess = "ready"
    /\ wpc = "idle"
    /\ wc' = cl
    /\ chipPre' = chip
    /\ wpc' = "cfg0"
    /\ UNCHANGED << chip, iOfs, iLen, log, bursts, wres, wireVars >>

\* "Prepare DMA-0 for DEBUG -> RAM (using DBG_BW trigger)"
WcConfig0 ==
    /\ wpc = "cfg0"
    /\ chip' = ConfigDMAChannel(chip, 0, Dma0Args(wc.blockSize))
    /\ wpc' = "cfg1"
    /\ UNCHANGED << wc, iOfs, iLen, log, bursts, wres, chipPre, wireVars >>

\* "Prepare DMA-1 for RAM -> FLASH (using the FLASH trigger)"; iOfs = 0
WcConfig1 ==
    /\ wpc = "cfg1"
    /\ chip' = ConfigDMAChannel(chip, 1, Dma1Args(wc.blockSize))
    /\ iOfs' = 0
    /\ wpc' = "loop"
    /\ UNCHANGED << wc, iLen, log, bursts, wres, chipPre, wireVars >>

\* variant of WcLoop: a short chunk does not rewrite the descriptors
WcLoop_NoReconf ==
    /\ wpc = "loop"
    /\ IF iOfs < Len(wc.data)
       THEN LET n == Min(Len(wc.data) - iOfs, wc.blockSize)
            IN  /\ iLen' = n
                /\ wpc' = "arm0"
                /\ log' = << >>
                /\ wres' = wres
       ELSE /\ wpc' = "done"
            /\ wres' = RetNone
            /\ UNCHANGED << iLen, log >>
    /\ UNCHANGED << chip, wc, iOfs, bursts, chipPre, wireVars >>

\* while (iOfs < len(data)): iLen = min(len(data) - iOfs, blockSize);
\* if (iLen < blockSize): ...
WcLoop ==
    /\ wpc = "loop"
    /\ IF iOfs < Len(wc.data)
       THEN LET n == Min(Len(wc.data) - iOfs, wc.blockSize)
            IN  /\ iLen' = n
                /\ wpc' = IF n < wc.blockSize THEN "reconf0" ELSE "arm0"
                /\ log' = << >>
                /\ wres' = wres
       ELSE /\ wpc' = "done"
            /\ wres' = RetNone
            /\ UNCHANGED << iLen, log >>
    /\ UNCHANGED << chip, wc, iOfs, bursts, chipPre, wireVars >>

\* "Update DMA configuration if we have less than blockSize data": channel 0
WcReconf0 ==
    /\ wpc = "reconf0"
    /\ chip' = ConfigDMAChannel(chip, 0, Dma0Args(iLen))
    /\ log' = Append(log, "reconf0")
    /\ wpc' = "reconf1"
    /\ UNCHANGED << wc, iOfs, iLen, bursts, wres, chipPre, wireVars >>

\* "Update DMA configuration if we have less than blockSize data": channel 1
WcReconf1 ==
    /\ wpc = "reconf1"
    /\ chip' = ConfigDMAChannel(chip, 1, Dma1Args(iLen))
    /\ log' = Append(log, "reconf1")
    /\ wpc' = "arm0"
    /\ UNCHANGED << wc, iOfs, iLen, bursts, wres, chipPre, wireVars >>

\* "Upload to RAM through DMA-0": self.armDMAChannel(0)
WcArm0 ==
    /\ wpc = "arm0"
    /\ chip' = ArmDMAChannel(chip, 0)
    /\ log' = Append(log, "arm0")
    /\ wpc' = "burst"
    /\ UNCHANGED << wc, iOfs, iLen, bursts, wres, chipPre, wireVars >>

\* the list writeCODE hands to brustWrite: data[iOfs:iLen]
ChunkArg(data, ofs, len) == Slice(data, ofs, len)

\* self.brustWrite( data[iOfs:iLen] ); the value returned is not looked at
WcBurst ==
    /\ wpc = "burst"
    /\ LET p == ChunkArg(wc.data, iOfs, iLen)
       IN  IF BrustTooLarge(p)
           THEN /\ bursts' = Append(bursts, [ofs |-> iOfs, len |-> iLen, arg |-> p,
                                            sent |-> FALSE, declared |-> 0,
                                            streamed |-> << >>])
                /\ log' = Append(log, "burst_refused")
                /\ UNCHANGED << chip, debugStatus >>
           ELSE /\ bursts' = Append(bursts, [ofs |-> iOfs, len |-> iLen, arg |-> p,
                                            sent |-> TRUE,
                                            declared |-> BrustFrame(p)[2] * 256 + BrustFrame(p)[3],
                                            streamed |-> BrustPayload(p)])
                /\ log' = Append(log, "burst")
                /\ chip' = Dma0Transfer(chip, BrustPayload(p))
                /\ \E b \in StatusBytes : debugStatus' = b
    /\ wpc' = "faddr"
    /\ UNCHANGED << wc, iOfs, iLen, wres, chipPre, wireVarsButStatus >>

\* "Set flash base address (FADDRL:FADDRH)"
WcFAddr ==
    /\ wpc = "faddr"
    /\ chip' = WriteXDATA(chip, 25201, FlashAddrBytes(wc.offset, iOfs, wc.flashPageSize))
    /\ log' = Append(log, "faddr")
    /\ wpc' = IF wc.erase THEN "erase" ELSE "arm1"
    /\ UNCHANGED << wc, iOfs, iLen, bursts, wres, chipPre, wireVars >>

\* "Set the erase bit"
WcErase ==
    /\ wpc = "erase"
    /\ chip' = FlashEraseStart(SetFlashErase(chip))
    /\ log' = Append(log, "erase")
    /\ wpc' = "busy"
    /\ UNCHANGED << wc, iOfs, iLen, bursts, wres, chipPre, wireVars >>

\* "Wait until flash is not busy any more": while self.isFlashBusy(): sleep
WcBusyPoll ==
    /\ wpc = "busy"
    /\ chip' = IsFlashBusyChip(chip)
    /\ IF IsFlashBusy(chip)
       THEN UNCHANGED << wpc, log >>
       ELSE /\ wpc' = "arm1"
            /\ log' = Append(log, "busy_clear")
    /\ UNCHANGED << wc, iOfs, iLen, bursts, wres, chipPre, wireVars >>

\* "Upload to FLASH through DMA-1": self.armDMAChannel(1)
WcArm1 ==
    /\ wpc = "arm1"
    /\ chip' = ArmDMAChannel(chip, 1)
    /\ log' = Append(log, "arm1")
    /\ wpc' = "write"
    /\ UNCHANGED << wc, iOfs, iLen, bursts, wres, chipPre, wireVars >>

\* self.setFlashWrite()
WcSetWrite ==
    /\ wpc = "write"
    /\ chip' = SetFlashWrite(chip)
    /\ log' = Append(log, "write")
    /\ wpc' = "irq"
    /\ UNCHANGED << wc, iOfs, iLen, bursts, wres, chipPre, wireVars >>

\* "Wait until DMA-1 raises interrupt": while not self.isDMAIRQ(1): sleep
WcIrqPoll ==
    /\ wpc = "irq"
    /\ chip' = IsDMAIRQChip(chip)
    /\ IF IsDMAIRQ(chip, 1)
       THEN /\ wpc' = "clear"
            /\ log' = Append(log, "irq")
       ELSE UNCHANGED << wpc, log >>
    /\ UNCHANGED << wc, iOfs, iLen, bursts, wres, chipPre, wireVars >>

\* "Clear DMA IRQ flag"
WcClearIrq ==
    /\ wpc = "clear"
    /\ chip' = ClearDMAIRQ(chip, 1)
    /\ log' = Append(log, "clear")
    /\ wpc' = "advance"
    /\ UNCHANGED << wc, iOfs, iLen, bursts, wres, chipPre, wireVars >>

\* "Forward to next page": iOfs += iLen
WcAdvance ==
    /\ wpc = "advance"
    /\ iOfs' = iOfs + iLen
    /\ wpc' = "loop"
    /\ UNCHANGED << chip, wc, iLen, log, bursts, wres, chipPre, wireVars >>

\* the proxy answers a command of writeCODE with ANS_ERROR: sendFrame or
\* brustWrite raises IOError and writeCODE is left
WcFault ==
    /\ wpc \notin {"idle", "done", "failed"}
    /\ \E e \in ErrCodes : wres' = Raised("IOError", e)
    /\ wpc' = "failed"
    /\ UNCHANGED << chip, wc, iOfs, iLen, log, bursts, chipPre, wireVars >>

\* the flash controller finishes an erase: BUSY and ERASE are cleared
ChipEraseDone ==
    /\ BitAnd(XRead(chip, 25200), 128) # 0
    /\ chip' = XWrite(chip, 25200, BitClear(XRead(chip, 25200), 129))
    /\ UNCHANGED << wc, iOfs, iLen, wpc, log, bursts, wres, chipPre, wireVars >>

\* DMA channel 1, triggered by the flash controller once WRITE is set,
\* completes: the channel disarms, DMAIRQ bit 1 is raised, WRITE is cleared
ChipDmaDone ==
    /\ BitAnd(XRead(chip, 25200), 2) # 0
    /\ BitAnd(SfrRead(chip, 214), 2) # 0
    /\ chip' = XWrite(SfrWrite(SfrWrite(chip, 214, BitClear(SfrRead(chip, 214), 2)),
                               209, BitOr(SfrRead(chip, 209), 2)),
                      25200, BitClear(XRead(chip, 25200), 2))
    /\ UNCHANGED << wc, iOfs, iLen, wpc, log, bursts, wres, chipPre, wireVars >>

\* the flash controller, busy with an erase or a write, reports a fault: ABORT
\* (0x20) or FULL (0x40) is set in FCTL and stays set
ChipFlashFault ==
    /\ wpc \notin {"idle", "done", "failed"}
    /\ BitAnd(XRead(chip, 25200), 131) # 0
    /\ BitAnd(XRead(chip, 25200), 96) = 0
    /\ \E bit \in {32, 64} : chip' = XWrite(chip, 25200, BitOr(XRead(chip, 25200), bit))
    /\ UNCHANGED << wc, iOfs, iLen, wpc, log, bursts, wres, chipPre, wireVars >>

\* the statements of writeCODE
WriteCodeStep ==
    \/ WcConfig0 \/ WcConfig1 \/ WcLoop \/ WcReconf0 \/ WcReconf1 \/ WcArm0
    \/ WcBurst \/ WcFAddr \/ WcErase \/ WcBusyPoll \/ WcArm1 \/ WcSetWrite
    \/ WcIrqPoll \/ WcClearIrq \/ WcAdvance

NextFlash ==
    \/ \E cl \in WriteCodeCalls : WriteCodeCall(cl)
    \/ WcConfig0
    \/ WcConfig1
    \/ WcLoop
    \/ WcReconf0
    \/ WcReconf1
    \/ WcArm0
    \/ WcBurst
    \/ WcFAddr
    \/ WcErase
    \/ WcBusyPoll
    \/ WcArm1
    \/ WcSetWrite
    \/ WcIrqPoll
    \/ WcClearIrq
    \/ WcAdvance
    \/ WcFault
    \/ ChipEraseDone
    \/ ChipDmaDone
    \/ ChipFlashFault

SpecFlash == InitFlash /\ [][NextFlash]_vars

\* the driver is single-threaded and blocking: while writeCODE has a statement
\* to execute, it executes it; nothing obliges the target's hardware to finish
SpecFlashFair == InitFlash /\ [][NextFlash]_vars /\ WF_vars(WriteCodeStep)


\* ========================================================================
\* Target-layer operations called on a ready session (proxy acknowledges)
\* ========================================================================
\* variant of SelectXDATABank: the register's upper bits are not kept
SelectXDATABank_LowOnly(c, bank) ==
    LET c1 == GetRegister(c, 199)
    IN  SetRegister(c1, 199, BitAnd(bank, 7))

\* selectXDATABank(bank)
SelectXDATABank(c, bank) ==
    LET c1 == GetRegister(c, 199)
    IN  SetRegister(c1, 199, BitOr(BitAnd(c1.a, 248), BitAnd(bank, 7)))

\* range(start, stop, -1)
RECURSIVE RangeDown(_, _)
RangeDown(start, stop) ==
    IF start <= stop THEN << >> ELSE << start >> \o RangeDown(start - 1, stop)

HexDigits ==
    << "0", "1", "2", "3", "4", "5", "6", "7", "8", "9", "a", "b", "c", "d", "e", "f" >>

\* "%02x" % b for a byte b, as a sequence of characters
Hex2(b) == << HexDigits[(b \div 16) + 1], HexDigits[(b % 16) + 1] >>

\* serial += "%02x" % bytes[i] for i in idx
RECURSIVE SerialOf(_, _)
SerialOf(bytes, idx) ==
    IF idx = << >> THEN << >>
    ELSE Hex2(bytes[Head(idx) + 1]) \o SerialOf(bytes, Tail(idx))

\* getSerial(): the target afterwards and the string returned
GetSerial(c) ==
    LET r == ReadXDATA(c, 30734, 6)
    IN  [chip |-> r.chip, serial |-> SerialOf(r.ans, RangeDown(5, 0))]

\* contents of the target the operations are tried on
MemCtrs == {0, 165, 255}                \* MEMCTR: 0x00, 0xA5, 0xFF

Serials == { << 1, 2, 3, 4, 5, 6 >>, << 18, 52, 86, 120, 154, 188 >> }

Fills == {0, 1}

TargetChips ==
    { [ dptr |-> 0, a |-> 0,
        xdata |-> [x \in XAddrs |-> IF x \in 30734..30739 THEN ser[x - 30733]
                                    ELSE f * (x % 251)],
        sfr |-> [r \in SfrAddrs |-> IF r = 199 THEN m ELSE f * r] ] :
        m \in MemCtrs, ser \in Serials, f \in Fills }

\* argument values of configDMAChannel other than index, interrupt and m8:
\* the call of the spec's example, writeCODE's channel 1, every field at its
\* largest value, and values wider than the masked fields
DmaProfiles ==
    { [srcAddr |-> 25184, dstAddr |-> 0, trigger |-> 31, vlen |-> 0, tlen |-> 2048,
       word |-> FALSE, transferMode |-> 0, srcInc |-> 0, dstInc |-> 1, priority |-> 1],
      [srcAddr |-> 0, dstAddr |-> 25203, trigger |-> 18, vlen |-> 0, tlen |-> 1,
       word |-> FALSE, transferMode |-> 0, srcInc |-> 1, dstInc |-> 0, priority |-> 2],
      [srcAddr |-> 65535, dstAddr |-> 65535, trigger |-> 31, vlen |-> 7, tlen |-> 8191,
       word |-> TRUE, transferMode |-> 3, srcInc |-> 3, dstInc |-> 3, priority |-> 3],
      [srcAddr |-> 4660, dstAddr |-> 43981, trigger |-> 63, vlen |-> 9, tlen |-> 10241,
       word |-> TRUE, transferMode |-> 2, srcInc |-> 5, dstInc |-> 6, priority |-> 7] }

DmaInputs ==
    { [srcAddr |-> q.srcAddr, dstAddr |-> q.dstAddr, trigger |-> q.trigger,
       vlen |-> q.vlen, tlen |-> q.tlen, word |-> q.word,
       transferMode |-> q.transferMode, srcInc |-> q.srcInc, dstInc |-> q.dstInc,
       interrupt |-> i, m8 |-> m, priority |-> q.priority, memBase |-> 4096] :
        q \in DmaProfiles, i \in BOOLEAN, m \in BOOLEAN }

Banks == {0, 1, 5, 7, 8, 13, 255}

ReadOffsets == {4096, 4104, 25200, 30734}

\* number of target-layer calls tried on one session
MaxTargetOps == 1

InitTarget ==
    /\ ReadySession
    /\ chip \in TargetChips
    /\ chipPre = chip
    /\ wc = NoCall
    /\ iOfs = 0
    /\ iLen = 0
    /\ wpc = "idle"
    /\ log = << >>
    /\ bursts = << >>
    /\ wres = NoResult

\* what a target-layer call leaves unchanged besides the target
TargetFrame ==
    UNCHANGED << port, sess, chipID, chipInfo, debugConfig, debugStatus, stage, pc, got,
                 tx, rx, pwait, sentOp, readOp, st0, pingOk, ack, wc, iOfs, iLen, wpc,
                 log, bursts, wres >>

\* a caller invokes configDMAChannel(index, ...)
TConfigDMAChannel(index, d) ==
    /\ sess = "ready" /\ nops < MaxTargetOps
    /\ op' = MkOp("configDMAChannel", index, 0, 0, d)
    /\ chipPre' = chip
    /\ chip' = ConfigDMAChannel(chip, index, d)
    /\ result' = RetNone
    /\ nops' = nops + 1
    /\ ans' = ans
    /\ TargetFrame

\* a caller invokes selectXDATABank(bank)
TSelectXDATABank(bank) ==
    /\ sess = "ready" /\ nops < MaxTargetOps
    /\ op' = MkOp("selectXDATABank", bank, 0, 0, << >>)
    /\ chipPre' = chip
    /\ chip' = SelectXDATABank(chip, bank)
    /\ result' = Returned(chip'.a)
    /\ nops' = nops + 1
    /\ ans' = ans
    /\ TargetFrame

\* a caller invokes readXDATA(offset, size)
TReadXDATA(offset, size) ==
    /\ sess = "ready" /\ nops < MaxTargetOps
    /\ op' = MkOp("readXDATA", offset, size, 0, << >>)
    /\ chipPre' = chip
    /\ LET r == ReadXDATA(chip, offset, size)
       IN  /\ chip' = r.chip
           /\ ans' = r.ans
           /\ result' = Returned(r.ans)
    /\ nops' = nops + 1
    /\ TargetFrame

\* the caller follows a readXDATA(offset, size) by writeXDATA(offset, bytes),
\* bytes being the list the read returned
TWriteXDATA ==
    /\ sess = "ready" /\ op.name = "readXDATA"
    /\ op' = MkOp("writeXDATA", op.c1, op.c2, 0, result.val)
    /\ chip' = WriteXDATA(chip, op.c1, result.val)
    /\ result' = Returned(Len(result.val))
    /\ UNCHANGED << chipPre, nops, ans >>
    /\ TargetFrame

\* a caller invokes getSerial()
TGetSerial ==
    /\ sess = "ready" /\ nops < MaxTargetOps
    /\ op' = MkOp("getSerial", 0, 0, 0, << >>)
    /\ chipPre' = chip
    /\ LET r == GetSerial(chip)
       IN  /\ chip' = r.chip
           /\ result' = Returned(r.serial)
    /\ nops' = nops + 1
    /\ ans' = ans
    /\ TargetFrame

NextTarget ==
    \/ \E index \in {0, 1}, d \in DmaInputs : TConfigDMAChannel(index, d)
    \/ \E bank \in Banks : TSelectXDATABank(bank)
    \/ \E offset \in ReadOffsets, size \in (0..MaxLen) \cup {6} : TReadXDATA(offset, size)
    \/ TWriteXDATA
    \/ TGetSerial

SpecTarget == InitTarget /\ [][NextTarget]_vars


\* ========================================================================
\* Properties of the transport and command layer (checked under SpecWire)
\* ========================================================================

\* C2: on one transport, the response of every command is consumed completely
\* before the next command frame is written: whenever the host is about to
\* write a frame, or has left an operation, no byte the proxy sent is unread
\* and the proxy owes no response.
C2_ResponseConsumed ==
    pc \in {"send", "idle"} => (rx = << >> /\ pwait = "idle")

\* C2 witness: __init__ has consumed the two chip id bytes of CHIP_ID and has
\* written the next frame (MOV DPTR,#0x6276).
C2_Witness ==
    /\ op.name = "init" /\ stage = 3 /\ pc = "ack"
    /\ chipID = 36161
    /\ tx = << CMD_EXEC_3, 144, 98, 118 >>

\* C6: brustWrite with more than 2048 bytes writes nothing to the port, leaves
\* the cached debug status alone and returns False; with exactly 2048 bytes
\* the frame is (BRUSTWR, 0x08, 0x00, 0) and the call is never refused
\* locally: it returns True unless the proxy's answer raises.
C6_BurstLimit ==
    /\ (op.name = "brustWrite" /\ Len(op.data) > 2048) =>
          /\ sentOp = 0 /\ tx = << >> /\ pwait = "idle"
          /\ debugStatus = st0
          /\ pc = "idle" => result = [kind |-> "False", val |-> 0]
    /\ (op.name = "brustWrite" /\ Len(op.data) = 2048) =>
          /\ pc # "send" => (Len(tx) >= 4 /\ SubSeq(tx, 1, 4) = << 10, 8, 0, 0 >>)
          /\ pc = "idle" => result.kind \in {"True", "IOError", "TypeError"}
          /\ (pc = "idle" /\ result.kind = "True") => sentOp = 4 + 2048

\* C6 witness: a brustWrite of 2049 bytes has returned False.
C6_Witness ==
    /\ op.name = "brustWrite" /\ Len(op.data) = 2049
    /\ pc = "idle" /\ result.kind = "False"

\* C7: for a brustWrite of 1..2048 bytes, once the header is acknowledged the
\* host writes exactly len(data) payload bytes, len(data) being the length
\* (P1<<8)|P2 declared in the frame, and nothing else; a successful call then
\* reads exactly two bytes, the ack and the debug status.
C7_BurstPayload ==
    (op.name = "brustWrite" /\ Len(op.data) \in 1..2048) =>
        /\ pc \in {"ack", "err", "stream"} => (Len(tx) = 4 /\ sentOp = 4)
        /\ pc # "send" => (Len(tx) >= 4 /\ tx[2] * 256 + tx[3] = Len(op.data))
        /\ (pc \in {"ack2", "err2", "status2"} \/ (pc = "idle" /\ result.kind = "True")) =>
              /\ Len(tx) = 4 + Len(op.data)
              /\ sentOp = 4 + Len(op.data)
              /\ \A i \in 1..Len(op.data) : tx[4 + i] = op.data[i] % 256
        /\ (pc = "idle" /\ result.kind = "True") => (readOp = 2 /\ rx = << >>)

\* C7 witness: a brustWrite of 2048 bytes has returned True.
C7_Witness ==
    /\ op.name = "brustWrite" /\ Len(op.data) = 2048
    /\ pc = "idle" /\ result.kind = "True"
    /\ debugStatus = 178

\* C8 (as claimed): no BRUSTWR frame declaring length 0 is ever written.
C8_NoZeroLengthBurst ==
    ~(Len(tx) >= 4 /\ tx[1] = CMD_BRUSTWR /\ tx[2] = 0 /\ tx[3] = 0)

\* C9: a session exists only if the ping was acknowledged and the chip id has
\* high byte 0x8D; for any other chip id the constructor ends in failure.
C9_SessionChip ==
    /\ sess = "ready" => (pingOk /\ chipID \div 256 = 141)
    /\ (op.name = "init" /\ stage = 8 /\ pc = "idle" /\ chipID \div 256 # 141) =>
          (sess = "failed" /\ result.kind \in {"IOError", "TypeError"})
    /\ (sess = "failed" /\ ~pingOk) => stage <= 1

\* C9 witness: the constructor has refused chip id 0x7F00.
C9_Witness ==
    /\ op.name = "init" /\ stage = 8 /\ pc = "idle"
    /\ chipID = 32512 /\ sess = "failed"
    /\ result = [kind |-> "IOError", val |-> 32512]

\* C10 (as claimed): once the constructor has failed after opening the port,
\* the port is closed.
C10_PortReleased ==
    sess = "failed" => port # "open"

\* C11 (as claimed): the ack byte of a command decides how the operation
\* ends: it returns only after ANS_OK, it fails carrying a proxy error code
\* only after ANS_ERROR, and after any other ack byte or a read timeout it
\* fails with an error that is no proxy error code.
C11_AckClassified ==
    (pc = "idle" /\ op.name \notin {"none", "init"} /\ tx # << >>) =>
        /\ result.kind \in {"True", "value"} => ack = ANS_OK
        /\ result.kind = "IOError" => ack = ANS_ERROR
        /\ ack \notin {ANS_OK, ANS_ERROR} => result.kind = "TypeError"

\* C14 (as claimed): when an operation has returned, the cached debug status
\* is the status byte of the most recent STEP, WR_CFG or BRUSTWR that
\* returned one, and an operation that returns no status has left it alone.
C14_StatusCached ==
    (pc = "idle" /\ sess = "ready" /\ op.name \notin {"none", "init"}) =>
        /\ (op.name \in {"step", "writeConfig"} /\ result.kind = "value") =>
              debugStatus = result.val
        /\ (op.name = "brustWrite" /\ result.kind = "True") =>
              debugStatus = got[Len(got)]
        /\ op.name \notin {"step", "writeConfig", "brustWrite"} => debugStatus = st0



\* ========================================================================
\* Properties of the target-layer operations (checked under SpecTarget)
\* ========================================================================

C16_BankSelect ==
    op.name = "selectXDATABank" =>
        /\ chip.sfr[199] = (chipPre.sfr[199] \div 8) * 8 + (op.c1 % 8)
        /\ \A r \in SfrAddrs \ {199} : chip.sfr[r] = chipPre.sfr[r]
        /\ chip.xdata = chipPre.xdata

\* C16 witness: bank 13 has been selected with 0xA5 in the register before.
C16_Witness ==
    /\ op.name = "selectXDATABank" /\ op.c1 = 13
    /\ chipPre.sfr[199] = 165
    /\ chip.sfr[199] = 165
    /\ chip.a = 165

\* C17: readXDATA(offset, size) returns the size bytes at offset ..
\* offset+size-1 in order and changes no XDATA byte; a writeXDATA(offset,
\* bytes) of the list returned that follows it leaves every XDATA byte as it
\* was before the read.
C17_XdataRoundTrip ==
    /\ op.name = "readXDATA" =>
          /\ result.val = [i \in 1..op.c2 |-> XRead(chipPre, op.c1 + i - 1)]
          /\ chip.xdata = chipPre.xdata
    /\ op.name = "writeXDATA" =>
          /\ op.data = [i \in 1..op.c2 |-> XRead(chipPre, op.c1 + i - 1)]
          /\ chip.xdata = chipPre.xdata
          /\ result.val = op.c2

\* C17 witness: the six bytes at 0x780E have been read and written back.
C17_Witness ==
    /\ op.name = "writeXDATA" /\ op.c1 = 30734 /\ op.c2 = 6
    /\ op.data = << 18, 52, 86, 120, 154, 188 >>
    /\ chip.dptr = 30740 /\ chip.a = 188

\* C20 (as claimed): getSerial returns 12 hex characters, the six bytes at
\* 0x780E..0x7813 from the byte at index 5 down to the byte at index 0.
C20_SerialSixBytes ==
    op.name = "getSerial" =>
        /\ Len(result.val) = 12
        /\ result.val = Hex2(chipPre.xdata[30739]) \o Hex2(chipPre.xdata[30738])
                        \o Hex2(chipPre.xdata[30737]) \o Hex2(chipPre.xdata[30736])
                        \o Hex2(chipPre.xdata[30735]) \o Hex2(chipPre.xdata[30734])


\* ========================================================================
\* Properties of the flash programmer (checked under SpecFlash)
\* ========================================================================
RECURSIVE ConcatArgs(_)
ConcatArgs(bs) == IF bs = << >> THEN << >> ELSE Head(bs).arg \o ConcatArgs(Tail(bs))

\* C1 (as claimed): every burst of writeCODE carries data[cursor ..
\* cursor+chunkLen-1], chunkLen being min(len(data)-cursor, blockSize), and
\* when writeCODE returns the payloads concatenated give data.
C1_ChunkPayloads ==
    /\ \A k \in 1..Len(bursts) :
          /\ bursts[k].len = Min(Len(wc.data) - bursts[k].ofs, wc.blockSize)
          /\ bursts[k].arg = SubSeq(wc.data, bursts[k].ofs + 1, bursts[k].ofs + bursts[k].len)
    /\ wpc = "done" => ConcatArgs(bursts) = wc.data

\* the steps the claim lists for one chunk, in order
ChunkSteps(erase) ==
    << "arm0", "burst", "faddr" >>
    \o (IF erase THEN << "erase", "busy_clear" >> ELSE << >>)
    \o << "arm1", "write", "irq", "clear" >>

\* C3 (as claimed): each chunk runs arm DMA-0, BRUSTWR of the chunk, FADDR
\* write, (erase and BUSY poll), arm DMA-1, WRITE, DMAIRQ poll, DMAIRQ clear in
\* this order with none skipped, and WRITE is not set before the chunk's burst
\* has completed and its FADDR has been written.
C3_ChunkOrder ==
    LET steps == SelectSeq(log, LAMBDA e : e \notin {"reconf0", "reconf1"})
    IN  /\ wpc = "advance" => steps = ChunkSteps(wc.erase)
        /\ (\E i \in 1..Len(log) : log[i] = "write") =>
              /\ \E i \in 1..Len(log) : log[i] = "burst"
              /\ \E i \in 1..Len(log) : log[i] = "faddr"

\* the flash addresses the claim ranges over that the model probes
ProbeAddrs == { o + i : o \in Offsets, i \in 0..MaxLen }

\* C4 (as claimed): the (FADDRL, FADDRH) pair written for a flash address is
\* the pair of no other flash address with page < 128 and offset < pageSize,
\* and for fAddr = 0x17FF it is (0xFF, 0x05).
C4_FlashAddrDecodes ==
    (\E i \in 1..Len(log) : log[i] = "faddr") =>
        LET fAddr == wc.offset + iOfs
            regs == << chip.xdata[25201], chip.xdata[25202] >>
        IN  /\ \A a \in ProbeAddrs :
                  FlashAddrBytes(a, 0, wc.flashPageSize) = regs => a = fAddr
            /\ fAddr = 6143 => regs = << 255, 5 >>

\* C5 (as claimed): a writeCODE call always ends, by returning or by failing.
C5_WriteCodeTerminates ==
    (wpc # "idle") ~> (wpc \in {"done", "failed"})

\* C13 (as claimed): a writeCODE call with data of length 0 executes no
\* instruction on the target and issues no burst: XDATA, the SFRs, DPTR and
\* the accumulator stay as they were when it was called.
C13_EmptyWriteNoOp ==
    (wpc # "idle" /\ wc.data = << >>) => (chip = chipPre /\ bursts = << >>)

\* C15 (as claimed): a statement of writeCODE that reads FCTL (setFlashErase,
\* the BUSY poll, setFlashWrite) while FULL or ABORT is set does not go on to
\* the next statement: the call fails.
C15_FlashFaultSurfaces ==
    [][ (/\ wpc \in {"erase", "busy", "write"}
         /\ BitAnd(XRead(chip, 25200), 96) # 0
         /\ wpc' # wpc) => wpc' = "failed" ]_vars

\* C18: once DMA channel 0 is armed for a chunk shorter than blockSize, both
\* descriptors have been rewritten for that chunk, before the arming, and
\* their LEN is the chunk's length; for a chunk of blockSize bytes no
\* descriptor is rewritten.
C18_ShortChunkReconf ==
    (\E i \in 1..Len(log) : log[i] = "arm0") =>
        IF iLen < wc.blockSize
        THEN /\ Len(log) >= 3
             /\ SubSeq(log, 1, 3) = << "reconf0", "reconf1", "arm0" >>
             /\ DescLen(chip, 4096) = iLen
             /\ DescLen(chip, 4104) = iLen
        ELSE \A i \in 1..Len(log) : log[i] \notin {"reconf0", "reconf1"}

\* C18 witness: the 1-byte last chunk of a 3-byte write with blockSize 2 is
\* about to be burst, both descriptors rewritten with LEN 1 and channel 0
\* armed.
C18_Witness ==
    /\ wpc = "burst" /\ Len(wc.data) = 3 /\ wc.blockSize = 2
    /\ iOfs = 2 /\ iLen = 1
    /\ log = << "reconf0", "reconf1", "arm0" >>
    /\ DescLen(chip, 4096) = 1 /\ DescLen(chip, 4104) = 1
    /\ BitAnd(SfrRead(chip, 214), 1) = 1

\* C19 (as claimed): with 1 <= blockSize <= 2048, a burst of writeCODE is
\* never refused locally, and the length its frame declares and the number of
\* bytes it streams are the LEN of both DMA descriptors in target RAM.
C19_BurstMatchesDescriptor ==
    (wpc = "faddr" /\ wc.blockSize \in 1..MaxBurstLen) =>
        LET b == bursts[Len(bursts)]
        IN  /\ b.sent
            /\ b.declared = DescLen(chip, 4096)
            /\ b.declared = DescLen(chip, 4104)
            /\ Len(b.streamed) = DescLen(chip, 4096)


====
